---- MODULE Spec2Model ----
(***************************************************************************)
(* Model of formwizard/forms.py: FormWizard and NamedUrlFormWizard.        *)
(*                                                                         *)
(* One wizard instance serves a sequence of GET/POST requests of one       *)
(* session.  The configuration (form_list, condition_list, wizard class)   *)
(* is fixed at construction; the storage backend holds the wizard state    *)
(* between requests.  Every action is one whole request handler.           *)
(*                                                                         *)
(* Spec      the requests of one session to a built wizard                 *)
(* BuildSpec as_view / build_init_kwargs over the declarations             *)
(* ExtraSpec the requests when URL patterns pass an extra_context          *)
(***************************************************************************)
EXTENDS Integers, Sequences, FiniteSets

VARIABLES
    wizard,          \* the view class: "FormWizard" or "NamedUrlFormWizard"
    form_list,       \* self.form_list: the declared step names, in declaration order
    condition_list,  \* self.condition_list: step name -> condition (a partial map)
    storage,         \* the storage backend's state for this session
    request,         \* the request handled last
    response,        \* what the handler of that request returned (or raised)
    init_args,       \* the arguments as_view passes to build_init_kwargs
    init_kwargs      \* what build_init_kwargs returned (or raised)

vars == <<wizard, form_list, condition_list, storage, request, response,
          init_args, init_kwargs>>

----------------------------------------------------------------------------
(* Bounds *)

\* Largest number of declared steps.
MaxSteps == 3

----------------------------------------------------------------------------
(* Values *)

\* Python's None (an unset current step, absent step data, an absent parameter).
None == "None"

\* unicode(i), the name build_init_kwargs gives the i-th unnamed form.
Names == <<"0", "1", "2", "3", "4", "5">>

StepNames == {Names[i] : i \in 1..MaxSteps}

\* extra_kwargs['done_step_name'] = 'done'
done_step_name == "done"

\* Exceptions a handler can end with.
IndexError == "IndexError"
ValueError == "ValueError"
KeyError == "KeyError"

IsError(x) == x \in {IndexError, ValueError, KeyError}

\* The request bodies a client posts: <<request.POST, request.FILES>>.  "ok"
\* and "alt" pass every step's form validation, "bad" fails it.
PostBodies ==
    { [data |-> "ok", files |-> "f1"],
      [data |-> "alt", files |-> "f2"],
      [data |-> "bad", files |-> "f1"] }

\* The value callable conditions compare stored step data with.
CondValue == "alt"

\* condition_list values: a boolean, or a callable over the wizard state:
\*   "eq": storage.get_step_data(dep) == CondValue
\*   "ne": storage.get_step_data(dep) != CondValue
Conditions(steps) ==
    { [kind |-> k, dep |-> Names[1]] : k \in {"true", "false"} }
      \cup [kind : {"eq", "ne"}, dep : steps]

\* A sequence's elements.
Range(s) == {s[i] : i \in 1..Len(s)}

\* The step lists the wizard is declared with: n unnamed forms, which
\* build_init_kwargs names unicode(0) .. unicode(n-1), or the same names given
\* as (step_name, form) tuples in the opposite order.
Unnamed(n) == [i \in 1..n |-> Names[i]]

Reversed(n) == [i \in 1..n |-> Names[n + 1 - i]]

FormLists == UNION { {Unnamed(n), Reversed(n)} : n \in 1..MaxSteps }

----------------------------------------------------------------------------
(* Construction: build_init_kwargs *)

\* A form class of the declaration.  file_field: its base_fields hold a
\* FileField (a formset class has no base_fields of its own);
\* form_file_field: it is a formset whose form's base_fields hold one.
FormClasses ==
    { [is_formset |-> FALSE, file_field |-> b, form_file_field |-> FALSE] :
        b \in BOOLEAN }
      \cup { [is_formset |-> TRUE, file_field |-> FALSE, form_file_field |-> b] :
                b \in BOOLEAN }

\* A form class without file fields.
PlainForm == [is_formset |-> FALSE, file_field |-> FALSE, form_file_field |-> FALSE]

\* An entry of the form_list argument: a form class, or a
\* (step_name, form_class) tuple.
Entry(is_tuple, step_name, form) ==
    [is_tuple |-> is_tuple, step_name |-> step_name, form |-> form]

\* The form_list argument that declares the steps fl with the form classes
\* fs: bare classes for the names unicode(0).., tuples otherwise.
FormListArg(fl, fs) ==
    [i \in 1..Len(fl) |->
        IF fl = Unnamed(Len(fl)) THEN Entry(FALSE, None, fs[i])
        ELSE Entry(TRUE, fl[i], fs[i])]

\* SortedDict.__setitem__: a new key is appended, a known key keeps its place.
SetItem(d, key, value) ==
    IF \E j \in 1..Len(d) : d[j].key = key
    THEN [j \in 1..Len(d) |-> IF d[j].key = key THEN [key |-> key, value |-> value]
                                ELSE d[j]]
    ELSE Append(d, [key |-> key, value |-> value])

\* The first loop of build_init_kwargs over form_list[0..n-1].
RECURSIVE init_form_list(_, _)
init_form_list(fl, n) ==
    IF n = 0 THEN <<>>
    ELSE LET entry == fl[n]
         IN IF entry.is_tuple
            THEN SetItem(init_form_list(fl, n - 1), entry.step_name, entry.form)
            ELSE SetItem(init_form_list(fl, n - 1), Names[n], entry.form)

\* The outcome of build_init_kwargs: the exception raised (None when it
\* returns) and kwargs['form_list'] (its keys).
InitKwargs(raised, keys) == [raised |-> raised, form_list |-> keys]

NotBuilt == InitKwargs("NotBuilt", <<>>)

\* Mutant of build_init_kwargs: a formset is not replaced by its form before
\* the file-field test.
build_init_kwargs_formset_not_unwrapped(args) ==
    LET d == init_form_list(args.form_list, Len(args.form_list))
    IN IF \E j \in 1..Len(d) :
             d[j].value.file_field /\ ~args.file_storage
       THEN InitKwargs("NoFileStorageException", <<>>)
       ELSE InitKwargs(None, [j \in 1..Len(d) |-> d[j].key])

\* build_init_kwargs(storage, form_list, ...) of a class that has
\* (file_storage TRUE) or has not an attribute file_storage.  form_list is
\* not empty and, for NamedUrlFormWizard, url_name is given and no step is
\* named done_step_name (the method's assertions).
build_init_kwargs(args) ==
    LET d == init_form_list(args.form_list, Len(args.form_list))
    IN IF \E j \in 1..Len(d) :
             LET form == d[j].value
             IN (IF form.is_formset THEN form.form_file_field ELSE form.file_field)
                  /\ ~args.file_storage
       THEN InitKwargs("NoFileStorageException", <<>>)
       ELSE InitKwargs(None, [j \in 1..Len(d) |-> d[j].key])

----------------------------------------------------------------------------
(* The storage backend (formwizard.storage): current step, per-step data   *)
(* and files, and the extra context.                                       *)

\* An extra context without keys.
EmptyContext == [k \in {} |-> None]

\* storage.reset(): no current step, no step data, no step files, no extra
\* context.
reset ==
    [ current_step  |-> None,
      step_data     |-> [s \in StepNames |-> None],
      step_files    |-> [s \in StepNames |-> None],
      extra_context |-> EmptyContext ]

set_current_step(st, step) == [st EXCEPT !.current_step = step]

get_current_step(st) == st.current_step

set_step_data(st, step, data) == [st EXCEPT !.step_data[step] = data]

\* The data stored for the step, None when there is none.
get_step_data(st, step) ==
    IF step \in DOMAIN st.step_data THEN st.step_data[step] ELSE None

set_step_files(st, step, files) == [st EXCEPT !.step_files[step] = files]

get_step_files(st, step) ==
    IF step \in DOMAIN st.step_files THEN st.step_files[step] ELSE None

get_extra_context_data(st) == st.extra_context

set_extra_context_data(st, context) == [st EXCEPT !.extra_context = context]

\* dict.update: the keys of `other` take its values, the others keep theirs.
update(context, other) ==
    [k \in DOMAIN context \cup DOMAIN other |->
        IF k \in DOMAIN other THEN other[k] ELSE context[k]]

----------------------------------------------------------------------------
(* Forms *)

\* form.is_valid() of a form built by get_form with `data`: an unbound form
\* (data None) is not valid, a bound form is valid when its data validates.
is_valid(form) == form.data \in {"ok", "alt"}

----------------------------------------------------------------------------
(* Active steps and sequencing *)

\* Mutant of condition: a step without an entry in condition_list is off
\* (the default of condition_list.get taken as False).
condition_default_false(cl, form_key, st) ==
    IF form_key \notin DOMAIN cl THEN FALSE
    ELSE LET c == cl[form_key] IN
         CASE c.kind = "true"  -> TRUE
           [] c.kind = "false" -> FALSE
           [] c.kind = "eq"    -> get_step_data(st, c.dep) = CondValue
           [] c.kind = "ne"    -> get_step_data(st, c.dep) # CondValue

\* The value of one step's condition in a wizard state:
\* condition_list.get(form_key, True), called when it is callable.
condition(cl, form_key, st) ==
    IF form_key \notin DOMAIN cl THEN TRUE
    ELSE LET c == cl[form_key] IN
         CASE c.kind = "true"  -> TRUE
           [] c.kind = "false" -> FALSE
           [] c.kind = "eq"    -> get_step_data(st, c.dep) = CondValue
           [] c.kind = "ne"    -> get_step_data(st, c.dep) # CondValue

\* Mutant of active_form_list: the loop stops at the first step whose
\* condition is false (break for continue).
RECURSIVE active_form_list_break(_, _, _)
active_form_list_break(fl, cl, st) ==
    IF fl = <<>> THEN <<>>
    ELSE IF condition(cl, Head(fl), st)
         THEN <<Head(fl)>> \o active_form_list_break(Tail(fl), cl, st)
         ELSE <<>>

\* get_form_list for a declaration fl with conditions cl: the keys of the
\* SortedDict it builds, in insertion order.
RECURSIVE active_form_list(_, _, _)
active_form_list(fl, cl, st) ==
    IF fl = <<>> THEN <<>>
    ELSE LET form_key == Head(fl)
             rest == active_form_list(Tail(fl), cl, st)
         IN IF condition(cl, form_key, st) THEN <<form_key>> \o rest ELSE rest

get_form_list(st) == active_form_list(form_list, condition_list, st)

has_key(L, k) == \E i \in 1..Len(L) : L[i] = k

\* list.index(x): the 0-based position of the first x; raises ValueError
\* (here -1) when x is not in the list.
index(L, x) ==
    IF has_key(L, x)
    THEN (CHOOSE i \in 1..Len(L) : L[i] = x /\ \A j \in 1..(i - 1) : L[j] # x) - 1
    ELSE -1

\* keys()[0]; raises IndexError on an empty list.
get_first_step(st) ==
    LET L == get_form_list(st) IN IF Len(L) = 0 THEN IndexError ELSE L[1]

\* keys()[-1]; raises IndexError on an empty list.
get_last_step(st) ==
    LET L == get_form_list(st) IN IF Len(L) = 0 THEN IndexError ELSE L[Len(L)]

\* Mutant of determine_step: the stored current step is returned even when
\* none is stored.
determine_step_stored_only(st) == st.current_step

\* storage.get_current_step() or self.get_first_step(...)
determine_step(st) ==
    IF get_current_step(st) # None THEN get_current_step(st) ELSE get_first_step(st)

\* The step an optional `step` argument stands for.
step_or_current(st, step) == IF step = None THEN determine_step(st) ELSE step

\* Mutant of get_next_step: the bound test is off by one.
get_next_step_off_by_one(st, step) ==
    LET L == get_form_list(st)
        s == step_or_current(st, step)
    IN IF s = IndexError THEN IndexError
       ELSE IF ~has_key(L, s) THEN ValueError
       ELSE LET key == index(L, s) + 1
            IN IF Len(L) > key + 1 THEN L[key + 1] ELSE None

get_next_step(st, step) ==
    LET L == get_form_list(st)
        s == step_or_current(st, step)
    IN IF s = IndexError THEN IndexError
       ELSE IF ~has_key(L, s) THEN ValueError
       ELSE LET key == index(L, s) + 1
            IN IF Len(L) > key THEN L[key + 1] ELSE None

\* Mutant of get_prev_step: the boundary test takes the second step for
\* the first.
get_prev_step_boundary(st, step) ==
    LET L == get_form_list(st)
        s == step_or_current(st, step)
    IN IF s = IndexError THEN IndexError
       ELSE IF ~has_key(L, s) THEN ValueError
       ELSE LET key == index(L, s) - 1
            IN IF key <= 0 THEN None ELSE L[key + 1]

get_prev_step(st, step) ==
    LET L == get_form_list(st)
        s == step_or_current(st, step)
    IN IF s = IndexError THEN IndexError
       ELSE IF ~has_key(L, s) THEN ValueError
       ELSE LET key == index(L, s) - 1
            IN IF key < 0 THEN None ELSE L[key + 1]

\* The 0-based index of the step; -1 stands for the exception raised
\* (IndexError from determine_step, ValueError from index).
get_step_index(st, step) ==
    LET s == step_or_current(st, step)
    IN IF s = IndexError THEN -1 ELSE index(get_form_list(st), s)

get_num_steps(st) == Len(get_form_list(st))

----------------------------------------------------------------------------
(* Responses *)

\* What a handler returns: a rendered form ("render", step: the step of the
\* form shown), a redirect ("redirect", step: the step of the target URL),
\* the response of done() ("done", snap: the storage done() was called
\* with), or an exception that propagates ("exception", step: its class).
\* `via` names the method that produced it; `data` is the data of the form
\* a rendered response shows (None otherwise); `steps` is, for a POST whose
\* data validated, the steps the handler worked on (see FormWizard_post).
Response(type, step, via, snap) ==
    [type |-> type, step |-> step, via |-> via, snap |-> snap, data |-> None,
     steps |-> <<>>]

\* The handler's outcome: the storage it leaves and its response.
Return(st, type, step, via) ==
    [storage |-> st, response |-> Response(type, step, via, reset)]

Raise(st, exc) == Return(st, "exception", exc, "raise")

\* HttpResponseRedirect(reverse(self.url_name, kwargs={'step': step}))
Redirect(st, step, via) == Return(st, "redirect", step, via)

----------------------------------------------------------------------------
(* FormWizard *)

\* The form object of a step: self.form_list[step](data=..., files=...).
\* Its step is an exception class when building it raises.
get_form(st, step, data, files) ==
    LET s == step_or_current(st, step)
    IN [ step  |-> IF IsError(s) \/ s \in Range(form_list) THEN s ELSE KeyError,
         data  |-> data,
         files |-> files ]

\* get_form_step_data: form.data
process_step(form) == form.data

\* get_form_step_files: form.files
process_step_files(form) == form.files

\* render -> render_template -> get_template_context: the context is built
\* from determine_step, get_first_step, get_last_step, get_prev_step,
\* get_next_step, get_step_index and get_num_steps, each of which can raise.
render(st, form, via) ==
    LET form_step == determine_step(st)
        form_first_step == get_first_step(st)
        form_last_step == get_last_step(st)
        form_prev_step == get_prev_step(st, None)
        form_next_step == get_next_step(st, None)
        form_step0 == get_step_index(st, None)
    IN IF IsError(form.step) THEN Raise(st, form.step)
       ELSE IF IsError(form_step) THEN Raise(st, form_step)
       ELSE IF IsError(form_first_step) THEN Raise(st, form_first_step)
       ELSE IF IsError(form_last_step) THEN Raise(st, form_last_step)
       ELSE IF IsError(form_prev_step) THEN Raise(st, form_prev_step)
       ELSE IF IsError(form_next_step) THEN Raise(st, form_next_step)
       ELSE IF form_step0 < 0 THEN Raise(st, ValueError)
       ELSE [Return(st, "render", form.step, via) EXCEPT !.response.data = form.data]

\* Mutant of done: the wizard is not reset after the callback.
done_without_reset(st) ==
    [storage |-> st, response |-> Response("done", None, "done", st)]

\* done(): the subclass's completion callback, then reset_wizard.
done(st) ==
    [storage |-> reset, response |-> Response("done", None, "done", st)]

FormWizard_render_revalidation_failure(st, step, form) ==
    render(set_current_step(st, step), form, "revalidation_failure")

NamedUrlFormWizard_render_revalidation_failure(st, failed_step, form) ==
    LET st1 == set_current_step(st, failed_step)
    IN Redirect(st1, get_current_step(st1), "revalidation_failure")

render_revalidation_failure(st, step, form) ==
    IF wizard = "NamedUrlFormWizard"
    THEN NamedUrlFormWizard_render_revalidation_failure(st, step, form)
    ELSE FormWizard_render_revalidation_failure(st, step, form)

\* Mutant of first_invalid: the loop keeps the last failing step instead of
\* returning at the first.
RECURSIVE first_invalid_keeps_last(_, _)
first_invalid_keeps_last(st, keys) ==
    IF keys = <<>> THEN None
    ELSE LET later == first_invalid_keeps_last(st, Tail(keys))
         IN IF later # None THEN later
            ELSE IF get_step_data(st, Head(keys)) \notin {"ok", "alt"} THEN Head(keys)
            ELSE None

\* The loop of render_done over the active steps keys[i..]: the first step
\* whose stored data does not validate, None when all validate.
RECURSIVE first_invalid(_, _)
first_invalid(st, keys) ==
    IF keys = <<>> THEN None
    ELSE LET form_obj == get_form(st, Head(keys), get_step_data(st, Head(keys)),
                                  get_step_files(st, Head(keys)))
         IN IF ~is_valid(form_obj) THEN Head(keys)
            ELSE first_invalid(st, Tail(keys))

\* Mutant of FormWizard_render_done: done() is called without re-validating
\* the stored steps.
FormWizard_render_done_unchecked(st, form, step_url) == done(st)

FormWizard_render_done(st, form, step_url) ==
    LET form_key == first_invalid(st, get_form_list(st))
    IN IF form_key # None
       THEN render_revalidation_failure(st, form_key,
                get_form(st, form_key, get_step_data(st, form_key),
                         get_step_files(st, form_key)))
       ELSE done(st)

NamedUrlFormWizard_render_done(st, form, step_url) ==
    IF step_url # done_step_name
    THEN Redirect(st, done_step_name, "render_done")
    ELSE FormWizard_render_done(st, form, step_url)

render_done(st, form, step_url) ==
    IF wizard = "NamedUrlFormWizard"
    THEN NamedUrlFormWizard_render_done(st, form, step_url)
    ELSE FormWizard_render_done(st, form, step_url)

FormWizard_render_next_step(st, form) ==
    LET next_step == get_next_step(st, None)
    IN IF IsError(next_step) THEN Raise(st, next_step)
       ELSE LET new_form == get_form(st, next_step, get_step_data(st, next_step),
                                     get_step_files(st, next_step))
            IN render(set_current_step(st, next_step), new_form, "render_next_step")

NamedUrlFormWizard_render_next_step(st, form) ==
    LET next_step == get_next_step(st, None)
    IN IF IsError(next_step) THEN Raise(st, next_step)
       ELSE Redirect(set_current_step(st, next_step), next_step, "render_next_step")

render_next_step(st, form) ==
    IF wizard = "NamedUrlFormWizard"
    THEN NamedUrlFormWizard_render_next_step(st, form)
    ELSE FormWizard_render_next_step(st, form)

get_extra_context(st) == get_extra_context_data(st)

\* Mutant of update_extra_context: the new context replaces the stored one.
update_extra_context_replaces(st, new_context) ==
    set_extra_context_data(st, new_context)

update_extra_context(st, new_context) ==
    LET context == update(get_extra_context(st), new_context)
    IN set_extra_context_data(st, context)

\* if 'extra_context' in kwargs: self.update_extra_context(...)
with_extra_context(st, req) ==
    IF req.has_extra_context THEN update_extra_context(st, req.extra_context)
    ELSE st

\* FormWizard.get: restart the wizard and render the first step.
FormWizard_get(st, req) ==
    LET st0 == with_extra_context(reset, req)
        first == get_first_step(st0)
    IN IF IsError(first) THEN Raise(st0, first)
       ELSE LET st1 == set_current_step(st0, first)
            IN render(st1, get_form(st1, None, None, None), "get")

\* FormWizard.post.  The response of a valid submission records the step of
\* the validated form (150), the step the data is stored under (152), the
\* step the files are stored under (154) and the step the last-step test
\* and render_next_step start from (157).
FormWizard_post(st_in, req) ==
  LET st == with_extra_context(st_in, req) IN
    IF req.prev # None /\ has_key(get_form_list(st), req.prev)
    THEN LET st1 == set_current_step(st, req.prev)
             form == get_form(st1, None,
                              get_step_data(st1, determine_step(st1)),
                              get_step_files(st1, determine_step(st1)))
         IN render(st1, form, "form_prev_step")
    ELSE LET form == get_form(st, None, req.data, req.files)
         IN IF IsError(form.step) THEN Raise(st, form.step)
            ELSE IF is_valid(form)
            THEN LET st1 == set_step_data(st, determine_step(st), process_step(form))
                     files_step == determine_step(st1)
                 IN IF IsError(files_step) THEN Raise(st1, files_step)
                    ELSE LET st2 == set_step_files(st1, files_step,
                                                   process_step_files(form))
                             current_step == determine_step(st2)
                             last_step == get_last_step(st2)
                         IN IF IsError(current_step) THEN Raise(st2, current_step)
                            ELSE IF IsError(last_step) THEN Raise(st2, last_step)
                            ELSE LET out == IF current_step = last_step
                                            THEN render_done(st2, form, req.url)
                                            ELSE render_next_step(st2, form)
                                 IN [out EXCEPT !.response.steps =
                                        <<form.step, determine_step(st),
                                          files_step, current_step>>]
            ELSE render(st, form, "post")

----------------------------------------------------------------------------
(* NamedUrlFormWizard *)

NamedUrlFormWizard_get(st_in, req) ==
    IF req.url = None
    THEN LET st1 == IF req.reset THEN reset ELSE st_in
             first == get_first_step(st1)
         IN IF req.reset /\ IsError(first) THEN Raise(st1, first)
            ELSE LET st2 == with_extra_context(
                                IF req.reset THEN set_current_step(st1, first) ELSE st1,
                                req)
                     step == determine_step(st2)
                 IN IF IsError(step) THEN Raise(st2, step)
                    ELSE Redirect(st2, step, "get")
    ELSE LET step_url == req.url
             st == with_extra_context(st_in, req)
         IN IF step_url = done_step_name
            THEN LET last_step == get_last_step(st)
                 IN IF IsError(last_step) THEN Raise(st, last_step)
                    ELSE render_done(st,
                             get_form(st, last_step, get_step_data(st, last_step),
                                      get_step_files(st, last_step)),
                             step_url)
            ELSE LET current == determine_step(st)
                 IN IF IsError(current) THEN Raise(st, current)
                    ELSE IF step_url # current
                    THEN IF has_key(get_form_list(st), step_url)
                         THEN LET st1 == set_current_step(st, step_url)
                              IN render(st1,
                                     get_form(st1, None,
                                         get_step_data(st1, get_current_step(st1)),
                                         get_step_files(st1, get_current_step(st1))),
                                     "get")
                         ELSE LET first == get_first_step(st)
                              IN IF IsError(first) THEN Raise(st, first)
                                 ELSE LET st1 == set_current_step(st, first)
                                      IN Redirect(st1, get_current_step(st1), "get")
                    ELSE render(st,
                             get_form(st, None,
                                 get_step_data(st, get_current_step(st)),
                                 get_step_files(st, get_current_step(st))),
                             "get")

\* Mutant of NamedUrlFormWizard_post: the form_prev_step branch redirects
\* without storing the step.
NamedUrlFormWizard_post_prev_not_stored(st, req) ==
    IF req.prev # None /\ has_key(get_form_list(st), req.prev)
    THEN Redirect(st, req.prev, "form_prev_step")
    ELSE FormWizard_post(st, req)

NamedUrlFormWizard_post(st, req) ==
    IF req.prev # None /\ has_key(get_form_list(st), req.prev)
    THEN LET st1 == set_current_step(st, req.prev)
         IN Redirect(st1, get_current_step(st1), "form_prev_step")
    ELSE FormWizard_post(st, req)

----------------------------------------------------------------------------
(* Requests *)

\* The step of the request URL: kwargs['step'] (None when the URL has none).
UrlSteps == StepNames \cup {done_step_name, "bogus", None}

\* Requests carry kwargs['extra_context'] only when the URL pattern passes
\* one (has_extra_context).
GetRequest(url, reset_param) ==
    [method |-> "GET", data |-> None, files |-> None, prev |-> None,
     url |-> url, reset |-> reset_param,
     has_extra_context |-> FALSE, extra_context |-> EmptyContext]

PostRequest(body, prev, url) ==
    [method |-> "POST", data |-> body.data, files |-> body.files, prev |-> prev,
     url |-> url, reset |-> FALSE,
     has_extra_context |-> FALSE, extra_context |-> EmptyContext]

NoRequest ==
    [method |-> None, data |-> None, files |-> None, prev |-> None,
     url |-> None, reset |-> FALSE,
     has_extra_context |-> FALSE, extra_context |-> EmptyContext]

\* The request with kwargs['extra_context'] = context.
WithExtraContext(req, context) ==
    [req EXCEPT !.has_extra_context = TRUE, !.extra_context = context]

\* The POSTs to a FormWizard: a body, or form_prev_step with the body the
\* form held (complete or not).
PostRequests ==
    {PostRequest(body, None, None) : body \in PostBodies}
      \cup {PostRequest(body, prev, None) :
              body \in {b \in PostBodies : b.data \in {"ok", "bad"}}, prev \in StepNames}

\* The GETs to a NamedUrlFormWizard: a URL with a step, or the bare URL with
\* or without the 'reset' parameter (read only when the URL has no step).
NamedGetRequests ==
    {GetRequest(url, FALSE) : url \in UrlSteps} \cup {GetRequest(None, TRUE)}

\* The POSTs to a NamedUrlFormWizard; post reads of the URL's step only
\* whether it is done_step_name.
NamedPostRequests ==
    PostRequests \cup {PostRequest(body, None, done_step_name) : body \in PostBodies}

\* condition_list: empty, or a condition for one of the declared steps.
ConditionLists(fl) ==
    { [k \in K |-> c] : K \in {{}} \cup {{s} : s \in Range(fl)},
                         c \in Conditions(Range(fl)) }

\* The arguments of a wizard whose forms have no file fields and whose
\* class has no file_storage.
PlainArgs(fl) ==
    [form_list |-> FormListArg(fl, [i \in 1..Len(fl) |-> PlainForm]),
     file_storage |-> FALSE]

\* Init: the wizard as_view built, before the session's first request.
Init ==
    /\ wizard \in {"FormWizard", "NamedUrlFormWizard"}
    /\ form_list \in FormLists
    /\ condition_list \in ConditionLists(form_list)
    /\ storage = reset
    /\ request = NoRequest
    /\ response = Response("none", None, "none", reset)
    /\ init_args = PlainArgs(form_list)
    /\ init_kwargs = build_init_kwargs(init_args)
    /\ form_list = init_kwargs.form_list

\* dispatch: the handler's outcome becomes the session's state.  When the
\* handler raises, storage.update_response is not reached: what it wrote is
\* kept by a backend that writes through to the session and lost by one
\* that writes it to the response.
Dispatch(req, out) ==
    /\ request' = req
    /\ response' = out.response
    /\ IF out.response.type = "exception"
       THEN storage' \in {out.storage, storage}
       ELSE storage' = out.storage
    /\ UNCHANGED <<wizard, form_list, condition_list, init_args, init_kwargs>>

Get ==
    /\ wizard = "FormWizard"
    /\ Dispatch(GetRequest(None, FALSE), FormWizard_get(storage, GetRequest(None, FALSE)))

Post ==
    /\ wizard = "FormWizard"
    /\ \E req \in PostRequests :
         Dispatch(req, FormWizard_post(storage, req))

NamedGet ==
    /\ wizard = "NamedUrlFormWizard"
    /\ \E req \in NamedGetRequests :
         Dispatch(req, NamedUrlFormWizard_get(storage, req))

NamedPost ==
    /\ wizard = "NamedUrlFormWizard"
    /\ \E req \in NamedPostRequests :
         Dispatch(req, NamedUrlFormWizard_post(storage, req))

Next == Get \/ Post \/ NamedGet \/ NamedPost

Spec == Init /\ [][Next]_vars

----------------------------------------------------------------------------
(* Construction on its own: as_view calls build_init_kwargs once. *)

\* The form_list arguments: up to MaxSteps form classes, bare or as tuples.
BuildArgs ==
    UNION { { [form_list |-> FormListArg(fl, fs), file_storage |-> b] :
                fs \in [1..Len(fl) -> FormClasses], b \in BOOLEAN } :
            fl \in FormLists }

BuildInit ==
    /\ wizard \in {"FormWizard", "NamedUrlFormWizard"}
    /\ init_args \in BuildArgs
    /\ init_kwargs = NotBuilt
    /\ form_list = <<>>
    /\ condition_list = <<>>
    /\ storage = reset
    /\ request = NoRequest
    /\ response = Response("none", None, "none", reset)

\* as_view: cls.build_init_kwargs(*args, **kwargs)
AsView ==
    /\ init_kwargs = NotBuilt
    /\ init_kwargs' = build_init_kwargs(init_args)
    /\ form_list' = init_kwargs'.form_list
    /\ UNCHANGED <<wizard, condition_list, storage, request, response, init_args>>

BuildNext == AsView

BuildSpec == BuildInit /\ [][BuildNext]_vars

----------------------------------------------------------------------------
(* Requests whose URL pattern passes an extra_context, to a wizard of two  *)
(* unconditional steps.                                                    *)

\* The dictionaries passed as kwargs['extra_context'].
ExtraContexts ==
    { [k \in {"a"} |-> "x"], [k \in {"a"} |-> "y"], [k \in {"b"} |-> "x"] }

\* The requests, each also with every extra_context.
WithExtraContexts(reqs) ==
    reqs \cup {WithExtraContext(req, c) : req \in reqs, c \in ExtraContexts}

ExtraInit ==
    /\ wizard \in {"FormWizard", "NamedUrlFormWizard"}
    /\ form_list = Unnamed(2)
    /\ condition_list = EmptyContext
    /\ storage = reset
    /\ request = NoRequest
    /\ response = Response("none", None, "none", reset)
    /\ init_args = PlainArgs(form_list)
    /\ init_kwargs = build_init_kwargs(init_args)

ExtraGet ==
    /\ wizard = "FormWizard"
    /\ \E req \in WithExtraContexts({GetRequest(None, FALSE)}) :
         Dispatch(req, FormWizard_get(storage, req))

ExtraPost ==
    /\ wizard = "FormWizard"
    /\ \E req \in WithExtraContexts(PostRequests) :
         Dispatch(req, FormWizard_post(storage, req))

ExtraNamedGet ==
    /\ wizard = "NamedUrlFormWizard"
    /\ \E req \in WithExtraContexts(NamedGetRequests) :
         Dispatch(req, NamedUrlFormWizard_get(storage, req))

ExtraNamedPost ==
    /\ wizard = "NamedUrlFormWizard"
    /\ \E req \in WithExtraContexts(NamedPostRequests) :
         Dispatch(req, NamedUrlFormWizard_post(storage, req))

ExtraNext == ExtraGet \/ ExtraPost \/ ExtraNamedGet \/ ExtraNamedPost

ExtraSpec == ExtraInit /\ [][ExtraNext]_vars

----------------------------------------------------------------------------
(* Properties *)

\* The position (1-based) of a declared step in the declaration.
Position(fl, k) == CHOOSE i \in 1..Len(fl) : fl[i] = k

\* The declared steps whose condition is true in the wizard state.
ActiveSet(st) == {k \in Range(form_list) : condition(condition_list, k, st)}

\* The stored data of the step passes the step's form validation.
StoredValid(st, k) == st.step_data[k] \in {"ok", "alt"}

\* C1: done() is invoked only in a state where the stored data of every
\* active step (every declared step whose condition is true in that state)
\* passes that step's validation.
C1_DoneOnlyWhenAllActiveValid ==
    response.type = "done" =>
        \A k \in ActiveSet(response.snap) : StoredValid(response.snap, k)

\* C1 happens: done() was called for a wizard with two or more active steps
\* while a declared step was inactive and had nothing valid stored.
C1_Witness ==
    /\ response.type = "done"
    /\ Cardinality(ActiveSet(response.snap)) >= 2
    /\ \E k \in Range(form_list) :
         k \notin ActiveSet(response.snap) /\ ~StoredValid(response.snap, k)

\* C5: no GET or POST ends with an exception propagating to the caller.
C5_NoExceptionPropagates == response.type # "exception"

\* C6: get_form_list returns exactly the declared steps whose condition is
\* true in the state (a missing condition counts as true), each once, in the
\* relative order of the declaration.
C6_ActiveListIsOrderedSubset ==
    LET L == get_form_list(storage)
    IN /\ Range(L) = ActiveSet(storage)
       /\ \A k \in Range(form_list) :
            k \notin DOMAIN condition_list => k \in Range(L)
       /\ \A i, j \in 1..Len(L) :
            i < j => Position(form_list, L[i]) < Position(form_list, L[j])

\* C6 happens: a callable condition switched a step off, a step without a
\* condition is active, and the declaration is not in name order.
C6_Witness ==
    /\ request.method = "POST"
    /\ Len(get_form_list(storage)) >= 2
    /\ form_list = Reversed(Len(form_list))
    /\ \E k \in DOMAIN condition_list :
         /\ condition_list[k].kind \in {"eq", "ne"}
         /\ k \notin Range(get_form_list(storage))
    /\ \E k \in Range(get_form_list(storage)) : k \notin DOMAIN condition_list

\* C7: for the active step list L and the step s at (0-based) position i:
\* get_step_index(s) = i, get_num_steps = |L|, get_next_step(s) is the step
\* at position i+1 or None for the last step, get_prev_step(s) the step at
\* position i-1 or None for the first step.
C7_Sequencing ==
    LET L == get_form_list(storage)
    IN /\ get_num_steps(storage) = Cardinality(ActiveSet(storage))
       /\ \A p \in 1..Len(L) :
            /\ get_step_index(storage, L[p]) = p - 1
            /\ get_next_step(storage, L[p]) = IF p < Len(L) THEN L[p + 1] ELSE None
            /\ get_prev_step(storage, L[p]) = IF p > 1 THEN L[p - 1] ELSE None

\* C7 happens: three active steps, declared in reverse name order, after a
\* request was handled.
C7_Witness ==
    /\ request.method # None
    /\ Len(get_form_list(storage)) = 3
    /\ form_list = Reversed(Len(form_list))

\* C9 as stated: for every step list, get_prev_step(get_next_step(first))
\* returns first, both evaluated in the same wizard state.
C9_PrevOfNextOfFirst ==
    Len(get_form_list(storage)) >= 1 =>
        get_prev_step(storage, get_next_step(storage, get_first_step(storage)))
            = get_first_step(storage)

\* C9 amended: for every active step list with two or more steps,
\* get_prev_step(get_next_step(first)) returns first.
C9_PrevOfNextOfFirst_TwoSteps ==
    Len(get_form_list(storage)) >= 2 =>
        get_prev_step(storage, get_next_step(storage, get_first_step(storage)))
            = get_first_step(storage)

\* C9 happens: two or more active steps while the stored current step is not
\* the first one.
C9_Witness ==
    /\ Len(get_form_list(storage)) >= 2
    /\ storage.current_step \notin {None, get_first_step(storage)}

\* The permutations of a step list.
Orderings(fl) ==
    {p \in [1..Len(fl) -> Range(fl)] : \A i, j \in 1..Len(fl) : p[i] = p[j] => i = j}

\* C10: with the wizard state and the conditions fixed, every permutation of
\* the declaration has the same set of active steps, listed in the
\* permutation's order.
C10_ActiveSetIndependentOfOrder ==
    \A p \in Orderings(form_list) :
        LET L == active_form_list(p, condition_list, storage)
        IN /\ Range(L) = Range(get_form_list(storage))
           /\ \A i, j \in 1..Len(L) : i < j => Position(p, L[i]) < Position(p, L[j])

\* C10 happens: a permutation changes the order of the active list, whose
\* first declared step is switched off by a callable condition.
C10_Witness ==
    /\ request.method = "POST"
    /\ \E p \in Orderings(form_list) :
         active_form_list(p, condition_list, storage) # get_form_list(storage)
    /\ form_list[1] \in DOMAIN condition_list
    /\ condition_list[form_list[1]].kind \in {"eq", "ne"}
    /\ form_list[1] \notin Range(get_form_list(storage))
    /\ Len(get_form_list(storage)) >= 2

\* The request is a submission of step data: a POST that does not take the
\* form_prev_step branch in the wizard state st.
IsSubmission(req, st) ==
    /\ req.method = "POST"
    /\ ~(req.prev # None /\ req.prev \in ActiveSet(st))

\* The storage as the handler left it when it returned: what done() was
\* called with when done() was called (the wizard is reset afterwards).
Handled(st, resp) == IF resp.type = "done" THEN resp.snap ELSE st

\* The active step declared last / the active step following k, None when
\* there is none.
LastActive(st) ==
    IF ActiveSet(st) = {} THEN None
    ELSE CHOOSE k \in ActiveSet(st) :
            \A m \in ActiveSet(st) : Position(form_list, m) <= Position(form_list, k)

NextActive(st, k) ==
    LET later == {m \in ActiveSet(st) : Position(form_list, m) > Position(form_list, k)}
    IN IF k \notin ActiveSet(st) \/ later = {} THEN None
       ELSE CHOOSE m \in later :
               \A n \in later : Position(form_list, m) <= Position(form_list, n)

\* The active steps whose stored data does not validate; the one declared
\* first.
InvalidActive(st) == {k \in ActiveSet(st) : ~StoredValid(st, k)}

FirstInvalidActive(st) ==
    CHOOSE k \in InvalidActive(st) :
        \A m \in InvalidActive(st) : Position(form_list, k) <= Position(form_list, m)

\* C2: on a POST that is not a previous-step request and whose data is valid
\* for the current step S, the data and files are stored under S; then, if S
\* is the last active step, done() is called only with every active step's
\* stored data valid; otherwise the stored current step becomes the active
\* step following S and done() is not called.
C2_ValidSubmission ==
    [][ ( /\ IsSubmission(request', storage)
          /\ ~IsError(determine_step(storage))
          /\ request'.data \in {"ok", "alt"} )
        => LET S == determine_step(storage)
               after == Handled(storage', response')
           IN /\ after.step_data[S] = request'.data
              /\ after.step_files[S] = request'.files
              /\ IF S = LastActive(after)
                 THEN response'.type = "done" =>
                        \A k \in ActiveSet(after) : StoredValid(after, k)
                 ELSE /\ response'.type # "done"
                      /\ storage'.current_step = NextActive(after, S)
      ]_vars

\* C3: when the re-validation of render_done finds an active step with
\* invalid stored data, the stored current step becomes the first such step
\* in declaration order, done() is not invoked and the stored step data and
\* files are kept.
C3_RevalidationFailure ==
    [][ response'.via = "revalidation_failure"
        => /\ response'.type \in {"render", "redirect"}
           /\ InvalidActive(storage') # {}
           /\ storage'.current_step = FirstInvalidActive(storage')
           /\ response'.step = FirstInvalidActive(storage')
           /\ \A k \in StepNames :
                /\ storage'.step_data[k] =
                     IF request'.method = "POST" /\ k = determine_step(storage)
                     THEN request'.data ELSE storage.step_data[k]
                /\ storage.step_files[k] # None => storage'.step_files[k] # None
      ]_vars

\* C3 happens: a valid submission of the last step reached render_done while
\* two earlier active steps had no valid data stored; the declaration is not
\* in name order and the submitted data was kept.
C3_Witness ==
    /\ response.via = "revalidation_failure"
    /\ request.method = "POST"
    /\ Cardinality(InvalidActive(storage)) >= 2
    /\ form_list = Reversed(Len(form_list))
    /\ storage.step_data[form_list[Len(form_list)]] = request.data

\* C4: on a POST whose data fails validation for the current step, the same
\* step is rendered again, the stored current step and every step's stored
\* data and files are unchanged, and done() is not invoked.
C4_InvalidSubmission ==
    [][ ( /\ IsSubmission(request', storage)
          /\ ~IsError(determine_step(storage))
          /\ request'.data \notin {"ok", "alt"} )
        => /\ storage' = storage
           /\ response'.type = "render"
           /\ response'.step = determine_step(storage)
      ]_vars

NothingStored(st) ==
    \A k \in StepNames : st.step_data[k] = None /\ st.step_files[k] = None

\* C11: after a GET to the basic FormWizard no step has stored data or files
\* and the stored current step is the first active step.
C11_GetRestarts ==
    (wizard = "FormWizard" /\ request.method = "GET") =>
        /\ NothingStored(storage)
        /\ ActiveSet(storage) # {}
        /\ storage.current_step = get_form_list(storage)[1]

\* C12: a POST whose form_prev_step names an active step stores that step as
\* the current step and changes nothing else in the storage (the submitted
\* data is neither validated nor stored), done() is not invoked, FormWizard
\* renders the step from its stored data and NamedUrlFormWizard redirects to
\* the step's URL.
C12_PrevStep ==
    [][ (request'.method = "POST" /\ request'.prev # None
           /\ request'.prev \in ActiveSet(storage)) =>
        /\ storage'.current_step = request'.prev
        /\ storage'.step_data = storage.step_data
        /\ storage'.step_files = storage.step_files
        /\ response'.type # "done"
        /\ response'.step = request'.prev
        /\ response'.via = "form_prev_step"
        /\ IF wizard = "FormWizard"
           THEN /\ response'.type = "render"
                /\ response'.data = storage.step_data[request'.prev]
           ELSE response'.type = "redirect" ]_vars

C12_Witness ==
    /\ request.method = "POST"
    /\ request.prev # None
    /\ response.via = "form_prev_step"
    /\ storage.current_step = request.prev
    /\ request.data = "ok"
    /\ storage.step_data[request.prev] = "alt"
    /\ response.type \in {"render", "redirect"}

\* A declared step's form (for a formset step, the formset's form) has a
\* file field.
HasFileFieldStep(args) ==
    \E i \in 1..Len(args.form_list) :
        LET c == args.form_list[i].form
        IN (~c.is_formset /\ c.file_field) \/ (c.is_formset /\ c.form_file_field)

\* The step names the form_list argument declares, in order.
DeclaredNames(args) ==
    [i \in 1..Len(args.form_list) |->
        IF args.form_list[i].is_tuple THEN args.form_list[i].step_name ELSE Names[i]]

\* C13: build_init_kwargs raises NoFileStorageException exactly when a
\* declared step's form (or a formset step's form) has a file field and the
\* class has no file_storage attribute; otherwise it returns the step
\* configuration.
C13_NoFileStorage ==
    init_kwargs # NotBuilt =>
        IF HasFileFieldStep(init_args) /\ ~init_args.file_storage
        THEN init_kwargs.raised = "NoFileStorageException"
        ELSE /\ init_kwargs.raised = None
             /\ init_kwargs.form_list = DeclaredNames(init_args)

C13_Witness ==
    /\ init_kwargs.raised = "NoFileStorageException"
    /\ ~init_args.file_storage
    /\ \E i \in 1..Len(init_args.form_list) :
          /\ init_args.form_list[i].form.is_formset
          /\ init_args.form_list[i].form.form_file_field
    /\ \A i \in 1..Len(init_args.form_list) :
          ~init_args.form_list[i].form.file_field

\* C14: update_extra_context(new) keeps every stored key that new does not
\* have with its value, gives every key of new its new value, and changes
\* neither the current step nor any step's stored data or files.
C14_UpdateExtraContext ==
    \A new \in ExtraContexts :
        LET before == get_extra_context_data(storage)
            st == update_extra_context(storage, new)
            after == get_extra_context_data(st)
        IN /\ \A k \in (DOMAIN before) \ (DOMAIN new) :
                 k \in DOMAIN after /\ after[k] = before[k]
           /\ \A k \in DOMAIN new : k \in DOMAIN after /\ after[k] = new[k]
           /\ st.current_step = storage.current_step
           /\ st.step_data = storage.step_data
           /\ st.step_files = storage.step_files

\* A request's extra_context has replaced the value of "a" and kept the
\* stored "b", in a wizard with a current step and stored data.
C14_Witness ==
    /\ request.has_extra_context
    /\ request.extra_context = [k \in {"a"} |-> "y"]
    /\ DOMAIN storage.extra_context = {"a", "b"}
    /\ storage.extra_context["a"] = "y"
    /\ storage.extra_context["b"] = "x"
    /\ storage.current_step # None
    /\ \E k \in StepNames : storage.step_data[k] # None

\* C15: in NamedUrlFormWizard done() is invoked only while handling a
\* request whose URL step is done_step_name; a valid submission of the last
\* active step S under any other URL step stores the data under S, returns
\* a redirect to the done URL, does not invoke done() and does not reset the
\* wizard.
C15_DoneOnlyUnderDoneUrl ==
    [][ wizard = "NamedUrlFormWizard" =>
        /\ response'.type = "done" => request'.url = done_step_name
        /\ ( /\ IsSubmission(request', storage)
             /\ ~IsError(determine_step(storage))
             /\ request'.data \in {"ok", "alt"}
             /\ request'.url # done_step_name
             /\ determine_step(storage) =
                  LastActive(set_step_data(storage, determine_step(storage),
                                           request'.data)) )
           => LET S == determine_step(storage)
              IN /\ storage'.step_data[S] = request'.data
                 /\ response'.type = "redirect"
                 /\ response'.step = done_step_name
      ]_vars

\* The active step declared first, None when there is none.
FirstActive(st) ==
    IF ActiveSet(st) = {} THEN None
    ELSE CHOOSE k \in ActiveSet(st) :
            \A m \in ActiveSet(st) : Position(form_list, k) <= Position(form_list, m)

\* C16: in NamedUrlFormWizard a GET whose URL step is neither
\* done_step_name, nor the current step, nor an active step stores the first
\* active step as the current step and redirects to its URL; the stored
\* step data and files are unchanged.
C16_UnknownUrlStep ==
    [][ ( /\ wizard = "NamedUrlFormWizard"
          /\ request'.method = "GET"
          /\ request'.url \notin {None, done_step_name}
          /\ ~IsError(determine_step(storage))
          /\ request'.url # determine_step(storage)
          /\ request'.url \notin ActiveSet(storage) )
        => /\ FirstActive(storage) # None
           /\ storage'.current_step = FirstActive(storage)
           /\ response'.type = "redirect"
           /\ response'.step = FirstActive(storage)
           /\ storage'.step_data = storage.step_data
           /\ storage'.step_files = storage.step_files
      ]_vars

\* C17: within one POST the step whose form validated the data, the step the
\* data is stored under, the step the files are stored under and the step
\* the last-step test and the next step are computed from are the same.
C17_OneStepPerPost ==
    response.steps # <<>> =>
        \A i \in 1..Len(response.steps) : response.steps[i] = response.steps[1]

\* C18: in NamedUrlFormWizard a GET whose URL step is an active step other
\* than the current step (the stored one, or the first active step when none
\* is stored) stores the URL step as the current step and renders it from
\* its stored data without changing any step's data or files; a GET with no
\* URL step and no 'reset' parameter changes neither the stored current step
\* nor the step data and redirects to the current step's URL.
C18_GetStepOrBare ==
    [][ (wizard = "NamedUrlFormWizard" /\ request'.method = "GET") =>
        /\ ( /\ request'.url \in ActiveSet(storage)
             /\ request'.url # determine_step(storage) )
           => /\ storage'.current_step = request'.url
              /\ response'.type = "render"
              /\ response'.step = request'.url
              /\ response'.data = storage.step_data[request'.url]
              /\ storage'.step_data = storage.step_data
              /\ storage'.step_files = storage.step_files
        /\ (request'.url = None /\ ~request'.reset)
           => /\ storage'.current_step = storage.current_step
              /\ storage'.step_data = storage.step_data
              /\ storage'.step_files = storage.step_files
              /\ response'.type = "redirect"
              /\ response'.step = determine_step(storage)
      ]_vars

==========================================================================
